---- MODULE Spec2Model ----
(***************************************************************************)
(* Model of the article-saver API (src/app): POST /submit, GET /articles   *)
(* and GET /rss over the articles table.                                   *)
(*                                                                         *)
(* Each worker process p handles one POST /submit at a time; several       *)
(* workers share the database (database.py uses NullPool for auto-scaled   *)
(* deployments), so the steps of two submissions interleave at every       *)
(* await and at every database round trip.                                 *)
(*                                                                         *)
(* Spec has the submissions of the workers running concurrently.           *)
(* SpecSerial has all three endpoints, with one request handled at a time. *)
(***************************************************************************)
EXTENDS Integers, Sequences, FiniteSets, TLC

VARIABLES
    ADD_ARTICLE_API_KEY, \* Config.ADD_ARTICLE_API_KEY, read from the environment
    articles,            \* rows of the articles table
    id_seq,              \* last value handed out by the articles.id sequence
    now,                 \* the application clock, datetime.now(timezone.utc)
    pc,                  \* pc[p]: where worker p is in submit_article
    request,             \* request[p]: the url and x-api-key being handled
    processed,           \* processed[p]: what process_url returned
    new_article,         \* new_article[p]: the Article added to the session
    nreq,                \* number of POST /submit requests received so far
    gpc,                 \* where the GET /articles handler is
    query,               \* its skip, limit, unread_only and the fetched page
    out                  \* the HTTP response sent by the step just taken

vars == <<ADD_ARTICLE_API_KEY, articles, id_seq, now, pc, request, processed,
          new_article, nreq, gpc, query, out>>

---------------------------------------------------------------------------
(* Bounds of the model *)

MaxRequests == 2
MaxClock == 1
MaxSkip == 1
MaxLimit == 1
MaxMsgLen == 1

\* the worker processes: two are what a race between submissions takes
Procs == {"w1", "w2"}

---------------------------------------------------------------------------
(* Values *)

None == "None"

Urls == {"http://a/1", "http://b/2"}

\* x-api-key header values a client may send (None: header absent)
Keys == {None, "secret", "wrong"}

\* What the web may serve for a URL at the time of a fetch: the page's
\* metadata title and the body trafilatura extracts from it, as a sequence of
\* tags and text runs.  The same URL may serve different pages over time.
Pages ==
    { [title |-> "T1", body |-> <<"p", "x">>],
      [title |-> None, body |-> <<"section", "p", "x">>],
      [title |-> "T3", body |-> <<"p", "y">>],
      [title |-> "T4", body |-> <<>>] }

Texts == {"x", "y"}

NotRun == [result |-> "not run"]
NoneResult == [result |-> "None"]
NoArticle == [row |-> "none"]
NoRequest == [url |-> None, x_api_key |-> None]
NoQuery == [skip |-> 0, limit |-> 0, unread_only |-> FALSE, page |-> <<>>]
NoOutput == [kind |-> "none"]

---------------------------------------------------------------------------
(* ContentProcessor *)

allowed_tags ==
    { "h1", "h2", "h3", "h4", "h5", "h6", "p", "br", "hr", "strong", "b",
      "em", "i", "u", "ul", "ol", "li", "a", "img", "blockquote", "pre",
      "code", "table", "thead", "tbody", "tr", "th", "td", "div", "span" }

\* nh3.clean: a tag outside the allow-list is removed, its text is kept
sanitize_html(html) ==
    SelectSeq(html, LAMBDA t : t \in Texts \/ t \in allowed_tags)

\* SHA-256 of the content: a fixed function of the content alone, taken
\* to be collision free
calculate_content_hash(content) == <<"sha256">> \o content

extract_content(page) ==
    IF page.body = <<>>
    THEN NoneResult
    ELSE [title   |-> IF page.title # None THEN page.title
                      ELSE "Untitled Article",
          content |-> sanitize_html(page.body)]

\* the mutant: the hash is taken over the URL and the content
process_url_hash_with_url(url, fetched) ==
    IF fetched = NoneResult
    THEN NoneResult
    ELSE LET extracted == extract_content(fetched) IN
         IF extracted = NoneResult
         THEN NoneResult
         ELSE [title        |-> extracted.title,
               content      |-> extracted.content,
               content_hash |->
                   calculate_content_hash(<<url>> \o extracted.content),
               source_url   |-> url,
               source_type  |-> "url"]

\* process_url once fetch_url has returned `fetched` (None or a page)
process_url(url, fetched) ==
    IF fetched = NoneResult
    THEN NoneResult
    ELSE LET extracted == extract_content(fetched) IN
         IF extracted = NoneResult
         THEN NoneResult
         ELSE [title        |-> extracted.title,
               content      |-> extracted.content,
               content_hash |-> calculate_content_hash(extracted.content),
               source_url   |-> url,
               source_type  |-> "url"]

---------------------------------------------------------------------------
(* Responses *)

ArticleResponse(a) ==
    [id          |-> a.id,
     title       |-> a.title,
     source_url  |-> a.source_url,
     source_type |-> a.source_type,
     created_at  |-> a.created_at,
     read_status |-> a.read_status]

SubmitOk(p, a) ==
    [kind |-> "submit", proc |-> p, request |-> request[p], status |-> 200,
     body |-> ArticleResponse(a)]

HTTPException(p, status_code) ==
    [kind |-> "submit", proc |-> p, request |-> request[p],
     status |-> status_code]

---------------------------------------------------------------------------
(* POST /submit *)

\* the mutant: `and` for `or` in the key check
Authorized_and_for_or(x_api_key) ==
    ~ (x_api_key = None /\ x_api_key # ADD_ARTICLE_API_KEY)

\* main.py 87: x_api_key is None or x_api_key != Config.ADD_ARTICLE_API_KEY
Authorized(x_api_key) ==
    ~ (x_api_key = None \/ x_api_key # ADD_ARTICLE_API_KEY)

\* db.query(Article).filter(Article.content_hash == h)
existing_query(h) == {a \in articles : a.content_hash = h}

\* the mutant: content_hash without unique=True
unique_violation_no_index(row) == FALSE

\* the unique index on articles.content_hash
unique_violation(row) == \E a \in articles : a.content_hash = row.content_hash

\* the mutant: a timestamp that runs against the clock
default_created_at_reversed == MaxClock - now

\* Column default of created_at, evaluated when the INSERT is built
default_created_at == now

Finish(p, response) ==
    /\ pc' = [pc EXCEPT ![p] = "idle"]
    /\ request' = [request EXCEPT ![p] = NoRequest]
    /\ processed' = [processed EXCEPT ![p] = NotRun]
    /\ new_article' = [new_article EXCEPT ![p] = NoArticle]
    /\ out' = response

\* The request arrives and the API key is verified (main.py 86-88)
submit_article_auth(p) ==
    /\ pc[p] = "idle"
    /\ nreq < MaxRequests
    /\ nreq' = nreq + 1
    /\ \E url \in Urls, key \in Keys :
         /\ IF Authorized(key)
            THEN /\ pc' = [pc EXCEPT ![p] = "process"]
                 /\ out' = NoOutput
                 /\ request' = [request EXCEPT
                                  ![p] = [url |-> url, x_api_key |-> key]]
            ELSE /\ pc' = pc
                 /\ out' = [kind |-> "submit", proc |-> p,
                            request |-> [url |-> url, x_api_key |-> key],
                            status |-> 401]
                 /\ request' = request
    /\ UNCHANGED <<ADD_ARTICLE_API_KEY, articles, id_seq, now, processed,
                   new_article, gpc, query>>

\* await processor.process_url(url): the fetch fails (None) or serves a page
submit_article_process(p) ==
    /\ pc[p] = "process"
    /\ \E fetched \in {NoneResult} \cup Pages :
         processed' = [processed EXCEPT
                         ![p] = process_url(request[p].url, fetched)]
    /\ pc' = [pc EXCEPT ![p] = "check"]
    /\ out' = NoOutput
    /\ UNCHANGED <<ADD_ARTICLE_API_KEY, articles, id_seq, now, request,
                   new_article, nreq, gpc, query>>

\* main.py 95-128: `if not processed` raises HTTPException(400) inside the
\* try block, where `except Exception` catches it and raises 500 instead;
\* otherwise the duplicate check runs and either answers with the existing
\* row or builds the new Article.
submit_article_check(p) ==
    /\ pc[p] = "check"
    /\ IF processed[p] = NoneResult
       THEN /\ Finish(p, HTTPException(p, 500))
       ELSE LET existing == existing_query(processed[p].content_hash) IN
            IF existing # {}
            THEN \E a \in existing : Finish(p, SubmitOk(p, a))
            ELSE /\ new_article' = [new_article EXCEPT ![p] = processed[p]]
                 /\ pc' = [pc EXCEPT ![p] = "flush"]
                 /\ out' = NoOutput
                 /\ UNCHANGED <<request, processed>>
    /\ UNCHANGED <<ADD_ARTICLE_API_KEY, articles, id_seq, now, nreq, gpc,
                   query>>

\* db.commit(), first half: the session flushes, SQLAlchemy evaluates the
\* Python-side column defaults (created_at, read_status) and sends the INSERT
submit_article_flush(p) ==
    /\ pc[p] = "flush"
    /\ new_article' = [new_article EXCEPT ![p] =
           [title        |-> processed[p].title,
            source_url   |-> processed[p].source_url,
            source_type  |-> processed[p].source_type,
            content      |-> processed[p].content,
            content_hash |-> processed[p].content_hash,
            created_at   |-> default_created_at,
            read_status  |-> FALSE]]
    /\ pc' = [pc EXCEPT ![p] = "commit"]
    /\ out' = NoOutput
    /\ UNCHANGED <<ADD_ARTICLE_API_KEY, articles, id_seq, now, request,
                   processed, nreq, gpc, query>>

\* db.commit(), second half: the database executes the INSERT and commits.
\* The id comes from the sequence (a value is consumed even when the INSERT
\* fails); a duplicate content_hash raises IntegrityError, which the handler
\* answers with 409 after a rollback.
submit_article_commit(p) ==
    /\ pc[p] = "commit"
    /\ id_seq' = id_seq + 1
    /\ IF unique_violation(new_article[p])
       THEN /\ articles' = articles
            /\ Finish(p, HTTPException(p, 409))
       ELSE LET row == [id |-> id_seq + 1] @@ new_article[p] IN
            /\ articles' = articles \cup {row}
            /\ Finish(p, SubmitOk(p, row))
    /\ UNCHANGED <<ADD_ARTICLE_API_KEY, now, nreq, gpc, query>>

---------------------------------------------------------------------------
(* GET /articles *)

Skips == -1 .. MaxSkip
Limits == -1 .. MaxLimit

\* query.filter(Article.read_status.is_(False)) when unread_only
filter_query(unread_only) ==
    IF unread_only THEN {a \in articles : a.read_status = FALSE} ELSE articles

\* ORDER BY created_at DESC: the orders the database may return the rows in.
\* Rows with equal created_at come in an order the database chooses.
order_by_created_at_desc(rows) ==
    {s \in [1 .. Cardinality(rows) -> rows] :
        /\ \A i, j \in DOMAIN s : i # j => s[i] # s[j]
        /\ \A i, j \in DOMAIN s :
              i < j => s[i].created_at >= s[j].created_at}

\* OFFSET skip LIMIT limit
offset_limit(s, skip, limit) ==
    SubSeq(s, skip + 1, IF skip + limit < Len(s) THEN skip + limit ELSE Len(s))

\* main.py 232-237: the page query.  PostgreSQL rejects a negative OFFSET or
\* LIMIT; the error is not handled and the request ends with 500.
list_articles_page ==
    /\ gpc = "idle"
    /\ \E skip \in Skips, limit \in Limits, unread_only \in BOOLEAN :
         IF skip < 0 \/ limit < 0
         THEN /\ out' = [kind |-> "list", status |-> 500, skip |-> skip,
                         limit |-> limit, unread_only |-> unread_only]
              /\ UNCHANGED <<gpc, query>>
         ELSE \E s \in order_by_created_at_desc(filter_query(unread_only)) :
                /\ query' = [skip |-> skip, limit |-> limit,
                             unread_only |-> unread_only,
                             page |-> offset_limit(s, skip, limit)]
                /\ gpc' = "count"
                /\ out' = NoOutput
    /\ UNCHANGED <<ADD_ARTICLE_API_KEY, articles, id_seq, now, pc, request,
                   processed, new_article, nreq>>

\* the mutant: the length of the page instead of query.count()
list_total_len_page(q) == Len(q.page)

\* main.py 254: query.count(), on the filtered query without offset and limit
list_total(q) == Cardinality(filter_query(q.unread_only))

\* main.py 239-255: the response is built; query.count() runs as a second
\* statement, after the page query
list_articles_count ==
    /\ gpc = "count"
    /\ out' = [kind |-> "list", status |-> 200,
               articles |-> [i \in DOMAIN query.page |->
                               ArticleResponse(query.page[i])],
               skip |-> query.skip, limit |-> query.limit,
               unread_only |-> query.unread_only,
               total |-> list_total(query)]
    /\ gpc' = "idle"
    /\ query' = NoQuery
    /\ UNCHANGED <<ADD_ARTICLE_API_KEY, articles, id_seq, now, pc, request,
                   processed, new_article, nreq>>

---------------------------------------------------------------------------
(* GET /rss *)

\* A document is a sequence of tokens.  Each < > & is a token of its own, and
\* so are the / ? ; of tags, declarations and entity references; every other
\* token is a run of characters with no < > & in it.

RSS_FEED_LIMIT == 50
\* (the accented i of the source strings is written i)
RSS_FEED_TITLE == "Mi Feed de Articulos Personal (Python)"
RSS_FEED_DESCRIPTION ==
    "Articulos y enlaces guardados personalmente con Python y Firebase."
RSS_FEED_LANGUAGE == "es-es"
base_url == "http://testserver/"

\* characters an exception message is made of
MsgChars == {"e", "<", "&"}

\* str(e) of the exception caught in rss_feed
Messages == UNION {[1 .. n -> MsgChars] : n \in 0 .. MaxMsgLen}

RECURSIVE Concat(_)
Concat(seqs) == IF seqs = <<>> THEN <<>> ELSE Head(seqs) \o Concat(Tail(seqs))

\* the escaping lxml applies to element text when it serialises the tree
xml_escape(text) ==
    Concat([i \in DOMAIN text |->
              CASE text[i] = "<" -> <<"&", "lt", ";">>
                [] text[i] = ">" -> <<"&", "gt", ";">>
                [] text[i] = "&" -> <<"&", "amp", ";">>
                [] OTHER -> <<text[i]>>])

Element(name, text) ==
    <<"<", name, ">">> \o text \o <<"<", "/", name, ">">>

\* the stored content as the HTML string it is
html_string(content) ==
    Concat([i \in DOMAIN content |->
              IF content[i] \in Texts THEN <<content[i]>>
              ELSE <<"<", content[i], ">">>])

\* main.py 182: article.source_url or f"{base_url}articles/{article.id}"
entry_link(article) ==
    IF article.source_url \notin {None, ""}
    THEN <<article.source_url>>
    ELSE <<base_url, "articles", "/", ToString(article.id)>>

\* main.py 177-194: one feed entry per article
feed_entry(article) ==
    [title   |-> article.title,
     link    |-> entry_link(article),
     guid    |-> entry_link(article),
     pubDate |-> article.created_at,
     content |-> article.content]

\* fg.rss_str(): feedgen builds an lxml tree and serialises it
rss_str(entries) ==
    <<"<", "?", "xml version='1.0' encoding='UTF-8'", "?", ">">>
    \o <<"<", "rss", " version=\"2.0\"", ">", "<", "channel", ">">>
    \o Element("title", xml_escape(<<RSS_FEED_TITLE>>))
    \o Element("description", xml_escape(<<RSS_FEED_DESCRIPTION>>))
    \o Element("language", xml_escape(<<RSS_FEED_LANGUAGE>>))
    \o Concat([i \in DOMAIN entries |->
          Element("item",
              Element("title", xml_escape(<<entries[i].title>>))
              \o Element("link", xml_escape(entries[i].link))
              \o Element("guid", xml_escape(entries[i].guid))
              \o Element("pubDate", <<ToString(entries[i].pubDate)>>)
              \o Element("content:encoded",
                         xml_escape(html_string(entries[i].content))))])
    \o <<"<", "/", "channel", ">", "<", "/", "rss", ">">>

\* main.py 207-214: the f-string of the except branch; {str(e)} is put in
\* as it is
error_xml(e) ==
    <<"<", "?", "xml version=\"1.0\" encoding=\"UTF-8\"", "?", ">">>
    \o <<"<", "rss", " version=\"2.0\"", ">", "<", "channel", ">">>
    \o <<"<", "title", ">", "Error - ", RSS_FEED_TITLE, "<", "/", "title", ">">>
    \o <<"<", "link", ">", "#", "<", "/", "link", ">">>
    \o <<"<", "description", ">", "Failed to generate RSS feed: ">> \o e
    \o <<"<", "/", "description", ">">>
    \o <<"<", "/", "channel", ">", "<", "/", "rss", ">">>

\* main.py 160-217.  The query or the feed assembly may raise (the database
\* is unreachable, feedgen rejects a value); `except Exception` answers with
\* error_xml.
rss_feed ==
    /\ \/ \E s \in order_by_created_at_desc(articles) :
            LET rows == offset_limit(s, 0, RSS_FEED_LIMIT)
                entries == [i \in DOMAIN rows |-> feed_entry(rows[i])]
            IN out' = [kind |-> "rss", status |-> 200,
                       media_type |-> "application/rss+xml; charset=utf-8",
                       entries |-> entries,
                       content |-> rss_str(entries)]
       \/ \E e \in Messages :
            out' = [kind |-> "rss", status |-> 500,
                    media_type |-> "application/xml",
                    message |-> e,
                    content |-> error_xml(e)]
    /\ UNCHANGED <<ADD_ARTICLE_API_KEY, articles, id_seq, now, pc, request,
                   processed, new_article, nreq, gpc, query>>

---------------------------------------------------------------------------
(* Environment *)

\* read_status is changed from outside the API (no endpoint sets it)
set_read_status ==
    /\ \E a \in articles :
         articles' = (articles \ {a})
                        \cup {[a EXCEPT !.read_status = ~ a.read_status]}
    /\ out' = NoOutput
    /\ UNCHANGED <<ADD_ARTICLE_API_KEY, id_seq, now, pc, request, processed,
                   new_article, nreq, gpc, query>>

\* time passes
Tick ==
    /\ now < MaxClock
    /\ now' = now + 1
    /\ out' = NoOutput
    /\ UNCHANGED <<ADD_ARTICLE_API_KEY, articles, id_seq, pc, request,
                   processed, new_article, nreq, gpc, query>>

---------------------------------------------------------------------------

Init ==
    /\ ADD_ARTICLE_API_KEY \in {None, "secret"}
    /\ articles = {}
    /\ id_seq = 0
    /\ now = 0
    /\ pc = [p \in Procs |-> "idle"]
    /\ request = [p \in Procs |-> NoRequest]
    /\ processed = [p \in Procs |-> NotRun]
    /\ new_article = [p \in Procs |-> NoArticle]
    /\ nreq = 0
    /\ gpc = "idle"
    /\ query = NoQuery
    /\ out = NoOutput

Next ==
    \/ \E p \in Procs : submit_article_auth(p)
    \/ \E p \in Procs : submit_article_process(p)
    \/ \E p \in Procs : submit_article_check(p)
    \/ \E p \in Procs : submit_article_flush(p)
    \/ \E p \in Procs : submit_article_commit(p)
    \/ Tick
    \/ set_read_status

\* Submissions handled concurrently by the workers
Spec == Init /\ [][Next]_vars

\* All three endpoints, one request at a time: a handler starts only when no
\* other is running
NoHandlerRunning == gpc = "idle" /\ \A p \in Procs : pc[p] = "idle"

NextSerial ==
    \/ \E p \in Procs : NoHandlerRunning /\ submit_article_auth(p)
    \/ \E p \in Procs : submit_article_process(p)
    \/ \E p \in Procs : submit_article_check(p)
    \/ \E p \in Procs : submit_article_flush(p)
    \/ \E p \in Procs : submit_article_commit(p)
    \/ NoHandlerRunning /\ list_articles_page
    \/ list_articles_count
    \/ NoHandlerRunning /\ rss_feed
    \/ Tick
    \/ set_read_status

SpecSerial == Init /\ [][NextSerial]_vars

---------------------------------------------------------------------------
(* A generic XML parser's well-formedness check of a document *)

EntityNames == {"lt", "gt", "amp", "quot", "apos"}
MarkupChars == {"<", ">", "&", ";", "/", "?"}

IsName(t) == t \notin MarkupChars

\* the first index >= i of doc holding token t, or 0
RECURSIVE IndexFrom(_, _, _)
IndexFrom(doc, i, t) ==
    IF i > Len(doc) THEN 0
    ELSE IF doc[i] = t THEN i
    ELSE IndexFrom(doc, i + 1, t)

Fail == [i |-> 0, open |-> <<>>, roots |-> 0, ok |-> FALSE]

\* One construct of the document: the parser is at token st.i, st.open are
\* the elements open there (innermost first) and st.roots is the number of
\* root elements seen.  The result is the parser past the construct, or Fail.
ParseStep(doc, st) ==
    LET i == st.i IN
    IF doc[i] = "<" THEN
        LET close == IndexFrom(doc, i + 1, ">")
            inner == IndexFrom(doc, i + 1, "<")
        IN IF ~ (close > i + 1 /\ (inner = 0 \/ inner > close)) THEN Fail
           ELSE IF doc[i + 1] = "?" THEN
                \* the XML declaration
                IF i = 1 /\ doc[close - 1] = "?" /\ close > i + 2
                THEN [st EXCEPT !.i = close + 1]
                ELSE Fail
           ELSE IF doc[i + 1] = "/" THEN
                \* an end tag closes the innermost open element
                IF close = i + 3 /\ st.open # <<>> /\ doc[i + 2] = Head(st.open)
                THEN [st EXCEPT !.i = close + 1, !.open = Tail(st.open)]
                ELSE Fail
           ELSE \* a start tag, or an empty-element tag
                IF ~ (IsName(doc[i + 1]) /\ (st.open # <<>> \/ st.roots = 0))
                THEN Fail
                ELSE LET r == IF st.open = <<>> THEN st.roots + 1
                              ELSE st.roots
                     IN IF doc[close - 1] = "/" /\ close - 1 > i + 1
                        THEN [st EXCEPT !.i = close + 1, !.roots = r]
                        ELSE [st EXCEPT !.i = close + 1, !.roots = r,
                                        !.open = <<doc[i + 1]>> \o st.open]
    ELSE IF doc[i] = "&" THEN
        IF /\ st.open # <<>>
           /\ i + 2 <= Len(doc)
           /\ doc[i + 1] \in EntityNames
           /\ doc[i + 2] = ";"
        THEN [st EXCEPT !.i = i + 3]
        ELSE Fail
    ELSE \* character data
        IF st.open # <<>> THEN [st EXCEPT !.i = i + 1] ELSE Fail

RECURSIVE ParseFrom(_, _)
ParseFrom(doc, st) ==
    IF ~ st.ok THEN FALSE
    ELSE IF st.i > Len(doc) THEN st.open = <<>> /\ st.roots = 1
    ELSE ParseFrom(doc, ParseStep(doc, st))

WellFormed(doc) ==
    ParseFrom(doc, [i |-> 1, open |-> <<>>, roots |-> 0, ok |-> TRUE])

\* the text of the first <name> element of doc
ElementText(doc, name) ==
    LET start == CHOOSE i \in 1 .. Len(doc) - 2 :
                    doc[i] = "<" /\ doc[i + 1] = name /\ doc[i + 2] = ">"
        stop  == CHOOSE j \in start + 3 .. Len(doc) - 3 :
                    /\ doc[j] = "<" /\ doc[j + 1] = "/" /\ doc[j + 2] = name
                    /\ \A k \in start + 3 .. j - 1 :
                         ~ (doc[k] = "<" /\ doc[k + 1] = "/"
                            /\ doc[k + 2] = name)
    IN SubSeq(doc, start + 3, stop - 1)

---------------------------------------------------------------------------
(* Properties *)

IsResult(r) == r # NotRun /\ r # NoneResult

\* the key is present and equals the configured one
KeyMatches(k) == k # None /\ k = ADD_ARTICLE_API_KEY

\* C1: with requests handled one after another, a submission whose
\* extracted and sanitized content equals that of a stored Article is
\* answered 200 with that Article (its id, its own source_url), and the
\* table is left as it was.
C1_DuplicateReturnsExisting ==
    [][\A p \in Procs : \A a \in articles :
          ( /\ pc[p] # "idle"
            /\ pc'[p] = "idle"
            /\ IsResult(processed[p])
            /\ a.content = processed[p].content )
          => /\ out' = SubmitOk(p, a)
             /\ articles' = articles]_vars

\* a 200 response carrying an Article stored from another URL
C1_Witness ==
    /\ out.kind = "submit"
    /\ out.status = 200
    /\ out.body.source_url # out.request.url
    /\ Cardinality(articles) = 1

\* C2: a submission whose INSERT meets a stored row with its content_hash
\* is answered 200 with that row.
C2_ConflictReturnsExisting ==
    [][\A p \in Procs : \A a \in articles :
          ( /\ pc[p] = "commit"
            /\ pc'[p] = "idle"
            /\ a.content_hash = new_article[p].content_hash )
          => out' = SubmitOk(p, a)]_vars

\* C3: no two stored Articles have the same content_hash.
C3_UniqueContentHash ==
    \A a, b \in articles : a.content_hash = b.content_hash => a = b

\* an INSERT lost the race: its content_hash was stored after its own
\* duplicate check
C3_Witness ==
    /\ out.kind = "submit"
    /\ out.status = 409
    /\ \E a \in articles :
         a.content = extract_content(
                        [title |-> "T1", body |-> <<"p", "x">>]).content

\* C4: a POST /submit whose x-api-key is missing or is not the configured
\* key is answered 401 and changes nothing: it never reaches the fetch, the
\* extraction or the table.  Only a request with the matching key goes on.
C4_UnauthorizedNoEffect ==
    [][nreq' # nreq =>
         \E p \in Procs :
            /\ pc[p] = "idle"
            /\ \/ /\ pc'[p] = "process"
                  /\ KeyMatches(request'[p].x_api_key)
               \/ /\ out'.kind = "submit"
                  /\ out'.status = 401
                  /\ ~ KeyMatches(out'.request.x_api_key)
                  /\ UNCHANGED <<articles, id_seq, pc, request, processed,
                                 new_article>>]_vars

\* a wrong key answered 401 with Articles in the table
C4_Witness ==
    /\ out.kind = "submit"
    /\ out.status = 401
    /\ out.request.x_api_key = "wrong"
    /\ articles # {}

\* C5: an authorized submission whose fetch failed or whose page has no
\* article body is answered 400, and nothing is stored.
C5_ExtractionFailureIs400 ==
    [][\A p \in Procs :
          ( /\ pc[p] = "check"
            /\ processed[p] = NoneResult
            /\ pc'[p] = "idle" )
          => /\ out'.status = 400
             /\ articles' = articles]_vars

\* C6: every GET /rss response is a well-formed XML document; the error
\* channel's title signals the error and its description carries the
\* failure summary.
C6_RssAlwaysWellFormed ==
    out.kind = "rss" =>
        /\ WellFormed(out.content)
        /\ out.status # 200 =>
             /\ ElementText(out.content, "title")
                   = <<"Error - ", RSS_FEED_TITLE>>
             /\ ElementText(out.content, "description")
                   = <<"Failed to generate RSS feed: ">> \o out.message

\* C7: with unread_only the listed Articles all have read_status false, and
\* total is the number of stored Articles matching the filter, whatever skip
\* and limit are.
C7_UnreadFilterAndTotal ==
    (out.kind = "list" /\ out.status = 200) =>
        /\ out.unread_only =>
             \A i \in DOMAIN out.articles : out.articles[i].read_status = FALSE
        /\ out.total =
             Cardinality({a \in articles :
                            out.unread_only => a.read_status = FALSE})

\* an empty page past the end of a filtered set of one, out of two Articles
C7_Witness ==
    /\ out.kind = "list"
    /\ out.status = 200
    /\ out.unread_only
    /\ out.skip = 1
    /\ out.articles = <<>>
    /\ out.total = 1
    /\ Cardinality(articles) = 2

\* C8: the page is the entries skip+1 .. skip+limit of the filtered set
\* sorted by created_at descending: whichever way the set is sorted by
\* created_at descending, the page is that slice, so that pages taken from
\* an unchanged table fit together.
C8_PageIsTheSortedSlice ==
    [][(gpc = "idle" /\ gpc' = "count") =>
         \A s \in [1 .. Cardinality(filter_query(query'.unread_only))
                     -> filter_query(query'.unread_only)] :
            ( /\ \A i, j \in DOMAIN s : i # j => s[i] # s[j]
              /\ \A i, j \in DOMAIN s :
                   i < j => s[i].created_at >= s[j].created_at )
            => query'.page =
                 SubSeq(s, query'.skip + 1,
                        IF query'.skip + query'.limit < Len(s)
                        THEN query'.skip + query'.limit ELSE Len(s))]_vars

\* C9: in a generated feed each item's guid is its link, the source_url
\* when there is one and the permalink of the id otherwise, and no two items
\* have the same guid.
C9_GuidIsUniqueLink ==
    (out.kind = "rss" /\ out.status = 200) =>
        /\ \A i \in DOMAIN out.entries : out.entries[i].guid = out.entries[i].link
        /\ \A i, j \in DOMAIN out.entries :
             i # j => out.entries[i].guid # out.entries[j].guid

\* C10: for stored Articles a and b with a.id < b.id, a.created_at <=
\* b.created_at, also when their submissions ran concurrently.
C10_CreatedAtMonotoneInId ==
    \A a, b \in articles : a.id < b.id => a.created_at <= b.created_at

\* C10 as amended: an Article that is already stored when a submission takes
\* its created_at has a created_at no later than the one taken, and an id
\* below the one the submission's INSERT is given.
C10_MonotoneAfterStored ==
    [][\A p \in Procs :
          /\ (pc[p] = "flush" /\ pc'[p] = "commit") =>
                \A a \in articles :
                    a.created_at <= new_article'[p].created_at
          /\ (pc[p] = "commit" /\ pc'[p] = "idle" /\ out'.status = 200) =>
                \A a \in articles : a.id < out'.body.id]_vars

\* two Articles stored one after the other, the clock having advanced
C10_Witness ==
    \E a, b \in articles : a.id < b.id /\ a.created_at < b.created_at

====
